---- MODULE Spec2Model ----
(***************************************************************************)
(* A model of qs-learn-box (src/src/main.rs, util.rs, consts.rs): the      *)
(* perimeter geometry of obstacles, the obstacle life cycle, and the       *)
(* per-frame update pipeline of GameState.                                 *)
(*                                                                         *)
(* Numbers.  The program computes in f32.  Every length of the model is an *)
(* integer count of sub-pixels, Sub to the pixel, Sub chosen so that the   *)
(* slow-motion step 5/2.2 px and the thirds of a pixel that come from      *)
(* total_lifetime = 800/3 are whole numbers.  Lifetimes are whole ticks,   *)
(* as in the program (they start at -40 and grow by 1).  Times are         *)
(* milliseconds.  Option<T> is a sequence: <<>> is None, <<v>> is Some(v). *)
(***************************************************************************)
EXTENDS Integers, Sequences, FiniteSets, TLC

\* ------------------------------------------------------------ constants
PLAYER_SPEED == 5
\* PLAYER_SLOWMO_FACTOR is 2.2; the model holds ten times it.
PLAYER_SLOWMO_FACTOR_X10 == 22
COLLECTOR_EDGE_LENGTH == 80
FIELD_EDGE_LENGTH == 500
OBSTACLE_WARNING_DRAW_TIME == 20
OBSTACLE_WARNING_FINISH_WAIT_TIME == 20
OBSTACLE_PRE_SPAWN_WARN_TIME == OBSTACLE_WARNING_DRAW_TIME + OBSTACLE_WARNING_FINISH_WAIT_TIME
OBSTACLE_HIDE_DELAY == 20
OBSTACLE_WARNING_MOVE_SPEED == FIELD_EDGE_LENGTH \div OBSTACLE_WARNING_DRAW_TIME
SPAWN_RATE_FACTOR == 6
\* SPAWN_RATE_SUBTRACT is 1.2; the model holds ten times it.
SPAWN_RATE_SUBTRACT_X10 == 12
FPS_GRAPH_SAMPLE_COUNT == 64
OBSTACLE_WARNING_WIDTH == 1
\* Literals of main.rs.
PLAYER_SIZE == 50
OBSTACLE_SPEED == 3
OBSTACLE_LENGTH == 300
OBSTACLE_WIDTH_MIN == 6
OBSTACLE_WIDTH_MAX == 14
SIDE_COUNT == 4
RESET_COUNTDOWN_MS == 2000
INITIAL_SPAWN_INTERVAL_MS == 4000
FPS_UPDATE_MS == 200
COLLECT_SCORE == 1
DESPAWN_SCORE == 100

\* ---------------------------------------------------------------- bounds
\* Milliseconds from one frame to the next (the host's frame pacing).
FrameMs == 17
\* Frames the host runs.
MaxFrames == 350
\* Frames in which the keyboard has any key down.
MaxKeyTicks == 1

\* ----------------------------------------------------------------- units
Sub == 3 * PLAYER_SLOWMO_FACTOR_X10
Px(n) == n * Sub
L == Px(FIELD_EDGE_LENGTH)

None == <<>>
Some(v) == <<v>>
is_none(o) == o = <<>>
is_some(o) == o # <<>>
unwrap(o) == o[1]

\* f32 `%` keeps the sign of the dividend.
Fmod(a, b) == IF a >= 0 THEN a % b ELSE -((-a) % b)

Min(a, b) == IF a < b THEN a ELSE b
Max(a, b) == IF a > b THEN a ELSE b

\* -------------------------------------------------------------- geometry
OutOfBounds == "ObstacleRixelOutOfBounds"

Rectangle_new(x, y, w, h) == [pos |-> [x |-> x, y |-> y], size |-> [x |-> w, y |-> h]]

\* quicksilver's Shape::overlaps_rectangle on two rectangles: strict on all sides.
overlaps_rectangle(a, b) ==
    /\ a.pos.x < b.pos.x + b.size.x
    /\ a.pos.x + a.size.x > b.pos.x
    /\ a.pos.y < b.pos.y + b.size.y
    /\ a.pos.y + a.size.y > b.pos.y

rixels_to_next_corner(rixel) == L - Fmod(rixel, L)

rixel_to_direction(rixel) ==
    IF rixel > 0 /\ rixel < L THEN "North"
    ELSE IF rixel < L * 2 THEN "East"
    ELSE IF rixel < L * 3 THEN "South"
    ELSE IF rixel < L * 4 THEN "West"
    ELSE OutOfBounds

\* positioning_to_rectangle with the west side's x computed as on the east side.
positioning_to_rectangle_west_as_east(rixel, distance, length, width) ==
    LET dir == rixel_to_direction(rixel)
        distance_back == L - rixels_to_next_corner(rixel)
    IN  IF dir = OutOfBounds THEN [ok |-> FALSE, err |-> rixel]
        ELSE [ok |-> TRUE, rect |->
            CASE dir = "North" ->
                    Rectangle_new(rixel - width \div 2, -length + distance, width, length)
              [] dir = "East" ->
                    Rectangle_new(L - distance, rixel - L - width \div 2, length, width)
              [] dir = "South" ->
                    Rectangle_new(rixel - distance_back * 2 - L - width \div 2,
                                  L - distance, width, length)
              [] dir = "West" ->
                    Rectangle_new(L - distance, L * 4 - rixel - width \div 2,
                                  length, width)]

\* positioning_to_rectangle with the south side's x measured from the
\* south-east corner onwards, without mirroring it back.
positioning_to_rectangle_south_unmirrored(rixel, distance, length, width) ==
    LET dir == rixel_to_direction(rixel)
        distance_back == L - rixels_to_next_corner(rixel)
    IN  IF dir = OutOfBounds THEN [ok |-> FALSE, err |-> rixel]
        ELSE [ok |-> TRUE, rect |->
            CASE dir = "North" ->
                    Rectangle_new(rixel - width \div 2, -length + distance, width, length)
              [] dir = "East" ->
                    Rectangle_new(L - distance, rixel - L - width \div 2, length, width)
              [] dir = "South" ->
                    Rectangle_new(rixel - L * 2 - width \div 2,
                                  L - distance, width, length)
              [] dir = "West" ->
                    Rectangle_new(-length + distance, L * 4 - rixel - width \div 2,
                                  length, width)]

\* Result<Rectangle>: [ok |-> TRUE, rect |-> r] or [ok |-> FALSE, err |-> rixel].
positioning_to_rectangle(rixel, distance, length, width) ==
    LET dir == rixel_to_direction(rixel)
        distance_back == L - rixels_to_next_corner(rixel)
    IN  IF dir = OutOfBounds THEN [ok |-> FALSE, err |-> rixel]
        ELSE [ok |-> TRUE, rect |->
            CASE dir = "North" ->
                    Rectangle_new(rixel - width \div 2, -length + distance, width, length)
              [] dir = "East" ->
                    Rectangle_new(L - distance, rixel - L - width \div 2, length, width)
              [] dir = "South" ->
                    Rectangle_new(rixel - distance_back * 2 - L - width \div 2,
                                  L - distance, width, length)
              [] dir = "West" ->
                    Rectangle_new(-length + distance, L * 4 - rixel - width \div 2,
                                  length, width)]

\* total_lifetime() is (L + length) / speed, which is no whole number (800/3):
\* the model holds total_lifetime * speed and compares lifetimes multiplied by speed.
total_lifetime_x_speed(ob) == L + ob.length

rectangle_distance(ob) ==
    IF ob.lifetime * ob.speed > L THEN L ELSE ob.lifetime * ob.speed

\* rectangle_length with the shrink phase measured from the spawn edge
\* instead of from the far edge.
rectangle_length_shrinks_from_start(ob) ==
    IF ob.lifetime < 0 \/ ob.lifetime * ob.speed > total_lifetime_x_speed(ob) THEN 0
    ELSE IF ob.lifetime * ob.speed < ob.length THEN ob.lifetime * ob.speed
    ELSE IF ob.lifetime * ob.speed > L THEN Max(0, ob.length - (ob.lifetime * ob.speed - ob.length))
    ELSE ob.length

rectangle_length(ob) ==
    IF ob.lifetime < 0 \/ ob.lifetime * ob.speed > total_lifetime_x_speed(ob) THEN 0
    ELSE IF ob.lifetime * ob.speed < ob.length THEN ob.lifetime * ob.speed
    ELSE IF ob.lifetime * ob.speed > L THEN ob.length - (ob.lifetime * ob.speed - L)
    ELSE ob.length

\* rectangle() before its unwrap.
rectangle(ob) ==
    positioning_to_rectangle(ob.rixel, rectangle_distance(ob), rectangle_length(ob), ob.width)

\* opposite without the edge length between the two corner distances.
opposite_without_edge(rixel) ==
    LET to_next_corner == L - Fmod(rixel, L)
    IN  Fmod(rixel + to_next_corner + to_next_corner, L * 4)

opposite(rixel) ==
    LET to_next_corner == L - Fmod(rixel, L)
    IN  Fmod(rixel + to_next_corner + L + to_next_corner, L * 4)

\* Obstacle::spawn with the side drawn from 1..4 instead of 0..3.
Obstacle_spawn_side_from_one(side, width, offset) ==
    [rixel |-> L * (side + 1) + offset,
     speed |-> Px(OBSTACLE_SPEED),
     width |-> width,
     length |-> Px(OBSTACLE_LENGTH),
     lifetime |-> -OBSTACLE_PRE_SPAWN_WARN_TIME]

\* Obstacle::spawn with the three random draws as parameters: the side
\* gen_range(0, 4), the width gen_range(6.0, 14.0) and the offset
\* gen_range(width / 2, L - width / 2).
Obstacle_spawn(side, width, offset) ==
    [rixel |-> L * side + offset,
     speed |-> Px(OBSTACLE_SPEED),
     width |-> width,
     length |-> Px(OBSTACLE_LENGTH),
     lifetime |-> -OBSTACLE_PRE_SPAWN_WARN_TIME]

\* ---------------------------------------------------------------- player
Player_new ==
    [rect |-> Rectangle_new(0, 0, Px(PLAYER_SIZE), Px(PLAYER_SIZE)),
     score |-> 0,
     color |-> "RED"]

collector_rectangle(p) ==
    LET cx == p.rect.pos.x + p.rect.size.x \div 2
        cy == p.rect.pos.y + p.rect.size.y \div 2
    IN  Rectangle_new(cx - Px(COLLECTOR_EDGE_LENGTH) \div 2,
                      cy - Px(COLLECTOR_EDGE_LENGTH) \div 2,
                      Px(COLLECTOR_EDGE_LENGTH), Px(COLLECTOR_EDGE_LENGTH))


\* ------------------------------------------------------- spawn scheduler
\* floor(1000 / cbrt(score / 100)) for score >= 100, by search on its cube:
\* the largest t with t^3 * score <= 1000^3 * 100.
inv_cbrt_x1000(score) ==
    LET big == 1000 * 1000 * 1000
        q == 100 * (big \div score) + (100 * (big % score)) \div score
    IN  CHOOSE t \in 0..1000 : t * t * t <= q /\ (t + 1) * (t + 1) * (t + 1) > q

\* `spawntime` before the cast to u64, in milliseconds:
\* 6 * floor(1000 / cbrt(score / 100)) - 1200, at most 6 ms below the f32 value.
spawntime_ms(score) ==
    LET s == Max(100, score)
    IN  SPAWN_RATE_FACTOR * inv_cbrt_x1000(s) - SPAWN_RATE_SUBTRACT_X10 * 100

\* Milliseconds.  The program computes (6 / cbrt(score/100) - 1.2) * 1000 in f32
\* and casts to u64; the model computes 6 * floor(1000 / cbrt(score/100)) - 1200,
\* within 6 ms of it, and a negative value casts to 0.
obstacle_spawn_interval(score) ==
    LET s == Max(100, score)
        spawntime == SPAWN_RATE_FACTOR * inv_cbrt_x1000(s) - SPAWN_RATE_SUBTRACT_X10 * 100
    IN  IF spawntime < 0 THEN 0 ELSE spawntime

\* ------------------------------------------------------------- countdown
Countdown_new(duration, t) == [start |-> t, duration |-> duration]
Countdown_elapsed(c, t) == t - c.start
Countdown_is_done(c, t) == t - c.start > c.duration

\* ------------------------------------------------------------- fps graph
FpsGraph_new == [history |-> [k \in 1..FPS_GRAPH_SAMPLE_COUNT |-> 0], i |-> 0]

log_fps(g, fps) ==
    [history |-> [g.history EXCEPT ![g.i + 1] = fps],
     i |-> (g.i + 1) % FPS_GRAPH_SAMPLE_COUNT]

\* f64 samples are whole frames per second; three numbers no host reports
\* stand for the f64 values that are not numbers of that kind.
F64_NAN == -1
F64_INFINITY == -2
F64_SUBNORMAL == -3

\* f64::is_normal: neither zero, infinite, subnormal, nor NaN.
is_normal(f) == f \notin {0, F64_NAN, F64_INFINITY, F64_SUBNORMAL}

\* The loop's `sum` over history[1..k].
RECURSIVE history_sum(_, _)
history_sum(history, k) == IF k = 0 THEN 0 ELSE history_sum(history, k - 1) + history[k]

\* recent_average_fps without the is_normal test.
recent_average_fps_unchecked(g) ==
    Some((history_sum(g.history, Len(g.history)) * 1000) \div Len(g.history))

\* Option<f64>; the average is held in thousandths of a frame per second.
recent_average_fps(g) ==
    IF \E k \in 1..Len(g.history) : ~is_normal(g.history[k]) THEN None
    ELSE Some((history_sum(g.history, Len(g.history)) * 1000) \div Len(g.history))

\* ----------------------------------------------------------------- state
VARIABLES
    obstacles,        \* GameState.obstacles: a sequence of obstacles
    player,           \* GameState.player
    last_spawned,     \* Option<Instant>
    spawn_interval,   \* Duration, ms
    is_running,       \* GameState.is_running
    reset_countdown,  \* Option<Countdown>
    fps_graph,        \* GameState.fps_graph
    fps_update_time,  \* Option<Instant>
    window_closed,    \* the host window has been asked to close
    now,              \* the monotonic clock Instant::now() reads, ms
    pc,               \* the step of the frame the host loop is at
    keyboard,         \* window.keyboard(): the keys down, as this frame's input step read them
    key_ticks,        \* frames so far in which a key was down
    probe,            \* arguments handed to the geometry functions
    probe_out         \* what the last geometry function returned

game_vars == <<obstacles, player, last_spawned, spawn_interval, is_running,
               reset_countdown, fps_graph, fps_update_time, window_closed,
               now, pc, keyboard, key_ticks>>
probe_vars == <<probe, probe_out>>
vars == <<obstacles, player, last_spawned, spawn_interval, is_running,
          reset_countdown, fps_graph, fps_update_time, window_closed,
          now, pc, keyboard, key_ticks, probe, probe_out>>

NoProbe == [rixel |-> 0, distance |-> 0, length |-> 0, width |-> 0]

\* GameState::new; the geometry probe is idle.
Init ==
    /\ obstacles = <<>>
    /\ player = Player_new
    /\ is_running = TRUE
    /\ reset_countdown = None
    /\ fps_graph = FpsGraph_new
    /\ fps_update_time = None
    /\ last_spawned = None
    /\ spawn_interval = INITIAL_SPAWN_INTERVAL_MS
    /\ window_closed = FALSE
    /\ now = 0
    /\ pc = "input"
    /\ keyboard = {}
    /\ key_ticks = 0
    /\ probe = NoProbe
    /\ probe_out = None

\* ----------------------------------------------------------------- input
\* The keyboard states the host may report in a frame: the keys that are down.
Keyboards ==
    { {}, {"H"}, {"Left"}, {"J"}, {"Down"}, {"K"}, {"Up"}, {"L"}, {"Right"},
      {"H", "L"}, {"J", "K"}, {"LShift"}, {"LShift", "J"}, {"LShift", "Right"},
      {"Escape"} }

is_down(keys, key) == key \in keys

movespeed(keys) ==
    IF is_down(keys, "LShift")
    THEN (Px(PLAYER_SPEED) * 10) \div PLAYER_SLOWMO_FACTOR_X10
    ELSE Px(PLAYER_SPEED)

\* check_movement without the test of the countdown.
check_movement_unfrozen(rect, keys, countdown) ==
    IF is_down(keys, "H") \/ is_down(keys, "Left")
    THEN [rect EXCEPT !.pos.x = @ - movespeed(keys)]
    ELSE IF is_down(keys, "J") \/ is_down(keys, "Down")
    THEN [rect EXCEPT !.pos.y = @ + movespeed(keys)]
    ELSE IF is_down(keys, "K") \/ is_down(keys, "Up")
    THEN [rect EXCEPT !.pos.y = @ - movespeed(keys)]
    ELSE IF is_down(keys, "L") \/ is_down(keys, "Right")
    THEN [rect EXCEPT !.pos.x = @ + movespeed(keys)]
    ELSE rect

\* "Check movement": the rectangle after the key branch.
check_movement(rect, keys, countdown) ==
    IF is_none(countdown) THEN
        IF is_down(keys, "H") \/ is_down(keys, "Left")
        THEN [rect EXCEPT !.pos.x = @ - movespeed(keys)]
        ELSE IF is_down(keys, "J") \/ is_down(keys, "Down")
        THEN [rect EXCEPT !.pos.y = @ + movespeed(keys)]
        ELSE IF is_down(keys, "K") \/ is_down(keys, "Up")
        THEN [rect EXCEPT !.pos.y = @ - movespeed(keys)]
        ELSE IF is_down(keys, "L") \/ is_down(keys, "Right")
        THEN [rect EXCEPT !.pos.x = @ + movespeed(keys)]
        ELSE rect
    ELSE rect

\* put_in_bounds without the two upper tests.
put_in_bounds_lower_only(rect) ==
    LET x == IF rect.pos.x < 0 THEN 0 ELSE rect.pos.x
        y == IF rect.pos.y < 0 THEN 0 ELSE rect.pos.y
    IN  [rect EXCEPT !.pos.x = x, !.pos.y = y]

\* "Put player back in movement bounds."
put_in_bounds(rect) ==
    LET x == IF rect.pos.x + rect.size.x > L THEN L - rect.size.x
             ELSE IF rect.pos.x < 0 THEN 0 ELSE rect.pos.x
        y == IF rect.pos.y + rect.size.y > L THEN L - rect.size.y
             ELSE IF rect.pos.y < 0 THEN 0 ELSE rect.pos.y
    IN  [rect EXCEPT !.pos.x = x, !.pos.y = y]

\* The steps with the spawn moved before the collision check.
StepAfter_spawn_first(step) ==
    CASE step = "input" -> "fps"
      [] step = "fps" -> "spawn"
      [] step = "spawn" -> "collide"
      [] step = "collide" -> "despawn"
      [] step = "despawn" -> "reset"
      [] step = "reset" -> "draw"
      [] step = "draw" -> "input"

\* The steps with the despawn moved before the collision check.
StepAfter_despawn_first(step) ==
    CASE step = "input" -> "fps"
      [] step = "fps" -> "despawn"
      [] step = "despawn" -> "collide"
      [] step = "collide" -> "spawn"
      [] step = "spawn" -> "reset"
      [] step = "reset" -> "draw"
      [] step = "draw" -> "input"

\* The order of the steps of update_inner, then the draw pass of the same frame.
StepAfter(step) ==
    CASE step = "input" -> "fps"
      [] step = "fps" -> "collide"
      [] step = "collide" -> "spawn"
      [] step = "spawn" -> "despawn"
      [] step = "despawn" -> "reset"
      [] step = "reset" -> "draw"
      [] step = "draw" -> "input"

\* update_inner's first lines with the close request made after
\* update_handle_input instead of before it.
HandleInput_close_after_input(keys) ==
    /\ pc = "input"
    /\ now \div FrameMs < MaxFrames
    /\ keyboard' = keys
    /\ player' = [player EXCEPT
                    !.rect = put_in_bounds(check_movement(player.rect, keys,
                                                          reset_countdown))]
    /\ is_running' = IF is_down(keys, "Escape") THEN FALSE ELSE is_running
    /\ window_closed' = (window_closed \/ ~is_running')
    /\ pc' = StepAfter(pc)
    /\ UNCHANGED <<obstacles, last_spawned, spawn_interval, reset_countdown,
                   fps_graph, fps_update_time, now, probe, probe_out>>

\* update_inner's first lines with the keyboard reading `keys`: the close
\* request, then update_handle_input.
HandleInput(keys) ==
    /\ pc = "input"
    /\ now \div FrameMs < MaxFrames
    /\ keyboard' = keys
    /\ window_closed' = (window_closed \/ ~is_running)
    /\ player' = [player EXCEPT
                    !.rect = put_in_bounds(check_movement(player.rect, keys,
                                                          reset_countdown))]
    /\ is_running' = IF is_down(keys, "Escape") THEN FALSE ELSE is_running
    /\ pc' = StepAfter(pc)
    /\ UNCHANGED <<obstacles, last_spawned, spawn_interval, reset_countdown,
                   fps_graph, fps_update_time, now, probe, probe_out>>

\* Any keyboard reading, with keys down in at most MaxKeyTicks frames.
UpdateHandleInput ==
    \E keys \in Keyboards :
        /\ keys # {} => key_ticks < MaxKeyTicks
        /\ key_ticks' = IF keys = {} THEN key_ticks ELSE key_ticks + 1
        /\ HandleInput(keys)

\* ------------------------------------------------------------- telemetry
\* window.current_fps() as the host reports it.
FpsSamples == {60}

UpdateFpsGraph ==
    /\ pc = "fps"
    /\ \E fps \in FpsSamples : fps_graph' = log_fps(fps_graph, fps)
    /\ fps_update_time' =
            IF is_none(fps_update_time) \/ now - unwrap(fps_update_time) > FPS_UPDATE_MS
            THEN Some(now) ELSE fps_update_time
    /\ pc' = StepAfter(pc)
    /\ UNCHANGED <<obstacles, player, last_spawned, spawn_interval, is_running,
                   reset_countdown, window_closed, now, keyboard, key_ticks, probe, probe_out>>


\* ------------------------------------------------------------- collision
\* The loop of update_check_collisions leaving at the first obstacle that
\* overlaps the player.
RECURSIVE check_collisions_from_stops_at_hit(_, _, _)
check_collisions_from_stops_at_hit(i, st, t) ==
    IF i > Len(st.obstacles) \/ st.panicked THEN st
    ELSE
        LET ob == [st.obstacles[i] EXCEPT !.lifetime = @ + 1]
            aged == [st EXCEPT !.obstacles[i] = ob]
            r == rectangle(ob)
        IN  IF ~r.ok THEN [aged EXCEPT !.panicked = TRUE]
            ELSE IF overlaps_rectangle(st.player.rect, r.rect)
            THEN [aged EXCEPT !.reset_countdown =
                                    Some(Countdown_new(RESET_COUNTDOWN_MS, t))]
            ELSE IF overlaps_rectangle(collector_rectangle(st.player), r.rect)
            THEN check_collisions_from_stops_at_hit(i + 1,
                    [aged EXCEPT !.player.score = @ + COLLECT_SCORE], t)
            ELSE check_collisions_from_stops_at_hit(i + 1, aged, t)

\* The loop of update_check_collisions with the collector test made on every
\* obstacle, not only on those that miss the player (`if` in place of `else if`).
RECURSIVE check_collisions_from_both_tests(_, _, _)
check_collisions_from_both_tests(i, st, t) ==
    IF i > Len(st.obstacles) \/ st.panicked THEN st
    ELSE
        LET ob == [st.obstacles[i] EXCEPT !.lifetime = @ + 1]
            aged == [st EXCEPT !.obstacles[i] = ob]
            r == rectangle(ob)
            hit == IF r.ok /\ overlaps_rectangle(st.player.rect, r.rect)
                   THEN [aged EXCEPT !.reset_countdown =
                                        Some(Countdown_new(RESET_COUNTDOWN_MS, t))]
                   ELSE aged
        IN  IF ~r.ok THEN [aged EXCEPT !.panicked = TRUE]
            ELSE IF overlaps_rectangle(collector_rectangle(st.player), r.rect)
            THEN check_collisions_from_both_tests(i + 1,
                    [hit EXCEPT !.player.score = @ + COLLECT_SCORE], t)
            ELSE check_collisions_from_both_tests(i + 1, hit, t)

\* The loop of update_check_collisions from obstacle i on.  st holds what the
\* loop writes: the obstacles, the player, the countdown, and whether
\* rectangle()'s unwrap panicked.  t is what Instant::now() reads.
RECURSIVE check_collisions_from(_, _, _)
check_collisions_from(i, st, t) ==
    IF i > Len(st.obstacles) \/ st.panicked THEN st
    ELSE
        LET ob == [st.obstacles[i] EXCEPT !.lifetime = @ + 1]
            aged == [st EXCEPT !.obstacles[i] = ob]
            r == rectangle(ob)
        IN  IF ~r.ok THEN [aged EXCEPT !.panicked = TRUE]
            ELSE IF overlaps_rectangle(st.player.rect, r.rect)
            THEN check_collisions_from(i + 1,
                    [aged EXCEPT !.reset_countdown =
                                    Some(Countdown_new(RESET_COUNTDOWN_MS, t))], t)
            ELSE IF overlaps_rectangle(collector_rectangle(st.player), r.rect)
            THEN check_collisions_from(i + 1,
                    [aged EXCEPT !.player.score = @ + COLLECT_SCORE], t)
            ELSE check_collisions_from(i + 1, aged, t)

\* update_check_collisions without the test of the countdown.
update_check_collisions_unguarded(obs, p, countdown, t) ==
    LET st == [obstacles |-> obs, player |-> p, reset_countdown |-> countdown,
               panicked |-> FALSE]
    IN  check_collisions_from(1, st, t)

update_check_collisions(obs, p, countdown, t) ==
    LET st == [obstacles |-> obs, player |-> p, reset_countdown |-> countdown,
               panicked |-> FALSE]
    IN  IF is_none(countdown) THEN check_collisions_from(1, st, t) ELSE st

UpdateCheckCollisions ==
    /\ pc = "collide"
    /\ LET st == update_check_collisions(obstacles, player, reset_countdown, now)
       IN  /\ obstacles' = st.obstacles
           /\ player' = st.player
           /\ reset_countdown' = st.reset_countdown
           /\ pc' = IF st.panicked THEN "crashed" ELSE StepAfter(pc)
    /\ UNCHANGED <<last_spawned, spawn_interval, is_running, fps_graph,
                   fps_update_time, window_closed, now, keyboard, key_ticks, probe, probe_out>>

\* ----------------------------------------------------------------- spawn
\* The draws of the random source the model tries, <<side, width, offset>>:
\* on every side the narrowest obstacle at the lowest and at the highest
\* offset (the rixels nearest the two corners of the side), and on the north
\* side an obstacle just under the widest, right beside the player's first
\* position.
SpawnWidthMin == Px(OBSTACLE_WIDTH_MIN)
SpawnWidthMax == Px(OBSTACLE_WIDTH_MAX) - 2
SpawnDraws ==
    {<<side, SpawnWidthMin, SpawnWidthMin \div 2>> : side \in 0..(SIDE_COUNT - 1)}
    \cup {<<side, SpawnWidthMin, L - SpawnWidthMin \div 2 - 1>> : side \in 0..(SIDE_COUNT - 1)}
    \cup {<<0, SpawnWidthMax, Px(PLAYER_SIZE) + SpawnWidthMax \div 2>>}

\* spawn_is_due measuring against the interval of GameState::new instead of
\* the current spawn_interval.
spawn_is_due_initial_interval(last, interval, t) ==
    is_none(last) \/ t - unwrap(last) > INITIAL_SPAWN_INTERVAL_MS

spawn_is_due(last, interval, t) == is_none(last) \/ t - unwrap(last) > interval

UpdateSpawnObstacles ==
    /\ pc = "spawn"
    /\ IF spawn_is_due(last_spawned, spawn_interval, now)
       THEN /\ last_spawned' = Some(now)
            /\ \E draw \in SpawnDraws :
                    obstacles' = Append(obstacles, Obstacle_spawn(draw[1], draw[2], draw[3]))
            /\ spawn_interval' = obstacle_spawn_interval(player.score)
       ELSE UNCHANGED <<last_spawned, obstacles, spawn_interval>>
    /\ pc' = StepAfter(pc)
    /\ UNCHANGED <<player, is_running, reset_countdown, fps_graph, fps_update_time,
                   window_closed, now, keyboard, key_ticks, probe, probe_out>>

\* --------------------------------------------------------------- despawn
\* The closure of retain without the hide delay in its threshold.
despawn_keeps_without_hide_delay(ob) ==
    ob.lifetime * ob.speed
        < total_lifetime_x_speed(ob)
          + (FIELD_EDGE_LENGTH \div OBSTACLE_WARNING_MOVE_SPEED) * ob.speed

\* The closure of retain: TRUE keeps the obstacle.
despawn_keeps(ob) ==
    ob.lifetime * ob.speed
        < total_lifetime_x_speed(ob)
          + (FIELD_EDGE_LENGTH \div OBSTACLE_WARNING_MOVE_SPEED) * ob.speed
          + OBSTACLE_HIDE_DELAY * ob.speed

update_despawn_obstacles(obs, p) ==
    LET kept == SelectSeq(obs, despawn_keeps)
    IN  [obstacles |-> kept,
         player |-> [p EXCEPT !.score = @ + DESPAWN_SCORE * (Len(obs) - Len(kept))]]

UpdateDespawnObstacles ==
    /\ pc = "despawn"
    /\ LET st == update_despawn_obstacles(obstacles, player)
       IN  /\ obstacles' = st.obstacles
           /\ player' = st.player
    /\ pc' = StepAfter(pc)
    /\ UNCHANGED <<last_spawned, spawn_interval, is_running, reset_countdown, fps_graph,
                   fps_update_time, window_closed, now, keyboard, key_ticks, probe, probe_out>>

\* ----------------------------------------------------------------- reset
reset_is_due(countdown, t) == is_some(countdown) /\ Countdown_is_done(unwrap(countdown), t)

\* update_reset_game without obstacles.clear().
update_reset_game_keeps_obstacles(obs, p, countdown, t) ==
    IF reset_is_due(countdown, t)
    THEN [obstacles |-> obs, player |-> Player_new, reset_countdown |-> None]
    ELSE [obstacles |-> obs, player |-> p, reset_countdown |-> countdown]

\* update_reset_game that keeps the score of the player it replaces.
update_reset_game_keeps_score(obs, p, countdown, t) ==
    IF reset_is_due(countdown, t)
    THEN [obstacles |-> <<>>, player |-> [Player_new EXCEPT !.score = p.score],
          reset_countdown |-> None]
    ELSE [obstacles |-> obs, player |-> p, reset_countdown |-> countdown]

update_reset_game(obs, p, countdown, t) ==
    IF reset_is_due(countdown, t)
    THEN [obstacles |-> <<>>, player |-> Player_new, reset_countdown |-> None]
    ELSE [obstacles |-> obs, player |-> p, reset_countdown |-> countdown]

UpdateResetGame ==
    /\ pc = "reset"
    /\ LET st == update_reset_game(obstacles, player, reset_countdown, now)
       IN  /\ obstacles' = st.obstacles
           /\ player' = st.player
           /\ reset_countdown' = st.reset_countdown
    /\ pc' = StepAfter(pc)
    /\ UNCHANGED <<last_spawned, spawn_interval, is_running, fps_graph,
                   fps_update_time, window_closed, now, keyboard, key_ticks, probe, probe_out>>

\* ------------------------------------------------------------------ draw
\* warning_rectangle without the `min` that stops the growing line at L.
warning_rectangle_unclamped(ob) ==
    IF ob.lifetime < 0 THEN
        LET dist == Px(OBSTACLE_WARNING_MOVE_SPEED)
                        * (ob.lifetime + OBSTACLE_PRE_SPAWN_WARN_TIME)
        IN  positioning_to_rectangle(ob.rixel, dist, dist, Px(OBSTACLE_WARNING_WIDTH))
    ELSE IF ob.lifetime * ob.speed - total_lifetime_x_speed(ob)
                < OBSTACLE_HIDE_DELAY * ob.speed THEN
        positioning_to_rectangle(ob.rixel, L, L, Px(OBSTACLE_WARNING_WIDTH))
    ELSE
        LET dist == L - Max(0,
                        (((ob.lifetime - OBSTACLE_HIDE_DELAY) * ob.speed
                            - total_lifetime_x_speed(ob))
                         * Px(OBSTACLE_WARNING_MOVE_SPEED)) \div ob.speed)
        IN  positioning_to_rectangle(opposite(ob.rixel), dist, dist,
                                     Px(OBSTACLE_WARNING_WIDTH))

\* The warning line draw_obstacles computes for one obstacle (a Result).
warning_rectangle(ob) ==
    IF ob.lifetime < 0 THEN
        LET dist == Min(L, Px(OBSTACLE_WARNING_MOVE_SPEED)
                            * (ob.lifetime + OBSTACLE_PRE_SPAWN_WARN_TIME))
        IN  positioning_to_rectangle(ob.rixel, dist, dist, Px(OBSTACLE_WARNING_WIDTH))
    ELSE IF ob.lifetime * ob.speed - total_lifetime_x_speed(ob)
                < OBSTACLE_HIDE_DELAY * ob.speed THEN
        positioning_to_rectangle(ob.rixel, L, L, Px(OBSTACLE_WARNING_WIDTH))
    ELSE
        LET dist == L - Max(0,
                        (((ob.lifetime - OBSTACLE_HIDE_DELAY) * ob.speed
                            - total_lifetime_x_speed(ob))
                         * Px(OBSTACLE_WARNING_MOVE_SPEED)) \div ob.speed)
        IN  positioning_to_rectangle(opposite(ob.rixel), dist, dist,
                                     Px(OBSTACLE_WARNING_WIDTH))

\* draw_obstacles ends in an error (a warning line's `?`) or a panic
\* (rectangle()'s unwrap); draw's wrapper turns the error into a panic.
draw_obstacles_fails(obs) ==
    \E i \in 1..Len(obs) : ~warning_rectangle(obs[i]).ok \/ ~rectangle(obs[i]).ok

\* The draw pass of the frame; the next frame starts FrameMs later.
Draw ==
    /\ pc = "draw"
    /\ IF draw_obstacles_fails(obstacles)
       THEN pc' = "crashed" /\ now' = now
       ELSE pc' = StepAfter(pc) /\ now' = now + FrameMs
    /\ UNCHANGED <<obstacles, player, last_spawned, spawn_interval, is_running,
                   reset_countdown, fps_graph, fps_update_time, window_closed,
                   keyboard, key_ticks, probe, probe_out>>

\* --------------------------------------------------------- specification
Next ==
    \/ UpdateHandleInput
    \/ UpdateFpsGraph
    \/ UpdateCheckCollisions
    \/ UpdateSpawnObstacles
    \/ UpdateDespawnObstacles
    \/ UpdateResetGame
    \/ Draw

Spec == Init /\ [][Next]_vars


\* The game with the host loop never ceasing to call update and draw while
\* it has frames left to run, and a player who uses only one of the keys.
LiveKeyboards == { {}, {"Right"} }

UpdateHandleInputLive ==
    \E keys \in LiveKeyboards :
        /\ keys # {} => key_ticks < MaxKeyTicks
        /\ key_ticks' = IF keys = {} THEN key_ticks ELSE key_ticks + 1
        /\ HandleInput(keys)

NextLive ==
    \/ UpdateHandleInputLive
    \/ UpdateFpsGraph
    \/ UpdateCheckCollisions
    \/ UpdateSpawnObstacles
    \/ UpdateDespawnObstacles
    \/ UpdateResetGame
    \/ Draw

SpecLive == Init /\ [][NextLive]_vars /\ WF_vars(NextLive)

\* ------------------------------------------------- a run to the far corner
\* The same game with the player first holding Right until past the right
\* wall, then Down until past the bottom wall, and only then pressing keys
\* freely (in at most MaxKeyTicks frames).
RunFrames == (FIELD_EDGE_LENGTH - PLAYER_SIZE) \div PLAYER_SPEED + 1

RunKeys(frame) == IF frame < RunFrames THEN {"Right"} ELSE {"Down"}

UpdateHandleInputRun ==
    /\ now \div FrameMs < 2 * RunFrames
    /\ key_ticks' = key_ticks
    /\ HandleInput(RunKeys(now \div FrameMs))

UpdateHandleInputAfterRun ==
    /\ now \div FrameMs >= 2 * RunFrames
    /\ UpdateHandleInput

NextCorner ==
    \/ UpdateHandleInputRun
    \/ UpdateHandleInputAfterRun
    \/ UpdateFpsGraph
    \/ UpdateCheckCollisions
    \/ UpdateSpawnObstacles
    \/ UpdateDespawnObstacles
    \/ UpdateResetGame
    \/ Draw

SpecCorner == Init /\ [][NextCorner]_vars

\* ------------------------------------------------- the geometry functions
\* The pure functions of Obstacle applied to arguments drawn from small sets:
\* rixels at, next to and between the corners, below 0 and from 4L on.
ProbeRixels ==
    {-Px(1), -1, 0, 1, Px(3), L \div 2, L - 1,
     L, L + 1, L + L \div 3, L * 2 - 1,
     L * 2, L * 2 + 1, L * 2 + Px(7), L * 3 - 1,
     L * 3, L * 3 + 1, L * 4 - Px(3), L * 4 - 1,
     L * 4, L * 4 + 1, L * 4 + Px(3)}
ProbeDistances == {0, Px(7), L}
ProbeLengths == {0, Px(OBSTACLE_LENGTH), L}
ProbeWidths == {Px(OBSTACLE_WARNING_WIDTH), SpawnWidthMin, SpawnWidthMax}

InitGeom ==
    /\ obstacles = <<>>
    /\ player = Player_new
    /\ is_running = TRUE
    /\ reset_countdown = None
    /\ fps_graph = FpsGraph_new
    /\ fps_update_time = None
    /\ last_spawned = None
    /\ spawn_interval = INITIAL_SPAWN_INTERVAL_MS
    /\ window_closed = FALSE
    /\ now = 0
    /\ pc = "input"
    /\ keyboard = {}
    /\ key_ticks = 0
    /\ probe \in [rixel : ProbeRixels, distance : ProbeDistances,
                  length : ProbeLengths, width : ProbeWidths]
    /\ probe_out = None

ProbeRixelToDirection ==
    /\ probe_out' = Some([fn |-> "rixel_to_direction",
                          dir |-> rixel_to_direction(probe.rixel)])
    /\ UNCHANGED <<game_vars, probe>>

ProbePositioningToRectangle ==
    /\ probe_out' = Some([fn |-> "positioning_to_rectangle",
                          result |-> positioning_to_rectangle(probe.rixel, probe.distance,
                                                              probe.length, probe.width)])
    /\ UNCHANGED <<game_vars, probe>>

ProbeOpposite ==
    /\ probe_out' = Some([fn |-> "opposite", rixel |-> opposite(probe.rixel)])
    /\ UNCHANGED <<game_vars, probe>>

\* opposite applied to what opposite returned.
ProbeOppositeAgain ==
    /\ is_some(probe_out)
    /\ unwrap(probe_out).fn = "opposite"
    /\ probe_out' = Some([fn |-> "opposite_opposite",
                          rixel |-> opposite(unwrap(probe_out).rixel)])
    /\ UNCHANGED <<game_vars, probe>>

NextGeom ==
    \/ ProbeRixelToDirection
    \/ ProbePositioningToRectangle
    \/ ProbeOpposite
    \/ ProbeOppositeAgain

SpecGeom == InitGeom /\ [][NextGeom]_vars


\* ------------------------------------------------- the telemetry window
\* The same game with no key pressed, run for MaxFpsFrames frames, in which
\* window.current_fps() follows a trace of the host fixed at the start (held
\* in probe): 60 in every frame but one slower frame and, in some traces,
\* one frame whose reading is not a normal number.
MaxFpsFrames == 140

\* A frame the run never reaches.
NoFrame == MaxFpsFrames
FpsTraces ==
    [invalid_at : {NoFrame, 0, 63, 64, 70},
     invalid : {0, F64_NAN, F64_INFINITY, F64_SUBNORMAL},
     slow_at : {3, 66, 130}]

current_fps(trace, frame) ==
    IF frame = trace.invalid_at THEN trace.invalid
    ELSE IF frame = trace.slow_at THEN 30
    ELSE 60

InitFps ==
    /\ obstacles = <<>>
    /\ player = Player_new
    /\ is_running = TRUE
    /\ reset_countdown = None
    /\ fps_graph = FpsGraph_new
    /\ fps_update_time = None
    /\ last_spawned = None
    /\ spawn_interval = INITIAL_SPAWN_INTERVAL_MS
    /\ window_closed = FALSE
    /\ now = 0
    /\ pc = "input"
    /\ keyboard = {}
    /\ key_ticks = 0
    /\ probe \in FpsTraces
    /\ probe_out = None

UpdateHandleInputIdle ==
    /\ now \div FrameMs < MaxFpsFrames
    /\ key_ticks' = key_ticks
    /\ HandleInput({})

\* update_fps_graph with the reading of the trace for this frame.
UpdateFpsGraphTrace ==
    /\ pc = "fps"
    /\ fps_graph' = log_fps(fps_graph, current_fps(probe, now \div FrameMs))
    /\ fps_update_time' =
            IF is_none(fps_update_time) \/ now - unwrap(fps_update_time) > FPS_UPDATE_MS
            THEN Some(now) ELSE fps_update_time
    /\ pc' = StepAfter(pc)
    /\ UNCHANGED <<obstacles, player, last_spawned, spawn_interval, is_running,
                   reset_countdown, window_closed, now, keyboard, key_ticks, probe, probe_out>>

NextFps ==
    \/ UpdateHandleInputIdle
    \/ UpdateFpsGraphTrace
    \/ UpdateCheckCollisions
    \/ UpdateSpawnObstacles
    \/ UpdateDespawnObstacles
    \/ UpdateResetGame
    \/ Draw

SpecFps == InitFps /\ [][NextFps]_vars

\* ------------------------------------------------- a stalled first frame
\* The same game on a host whose first frame takes StallMs (longer than the
\* first spawn interval), so that the second frame spawns again and two
\* obstacles one tick apart are in play; the frames after it are paced as
\* before, until the clock reaches MaxFrames * FrameMs.
StallMs == 5000

DrawStalled ==
    /\ pc = "draw"
    /\ now = 0
    /\ IF draw_obstacles_fails(obstacles)
       THEN pc' = "crashed" /\ now' = now
       ELSE pc' = StepAfter(pc) /\ now' = now + StallMs
    /\ UNCHANGED <<obstacles, player, last_spawned, spawn_interval, is_running,
                   reset_countdown, fps_graph, fps_update_time, window_closed,
                   keyboard, key_ticks, probe, probe_out>>

DrawPaced ==
    /\ now > 0
    /\ Draw

NextStall ==
    \/ UpdateHandleInput
    \/ UpdateFpsGraph
    \/ UpdateCheckCollisions
    \/ UpdateSpawnObstacles
    \/ UpdateDespawnObstacles
    \/ UpdateResetGame
    \/ DrawStalled
    \/ DrawPaced

SpecStall == Init /\ [][NextStall]_vars

\* ------------------------------------------------- the spawn interval
\* obstacle_spawn_interval applied to scores drawn from a small set: every
\* 500th score up to 30000, the scores around 100 and around 12500, and some
\* large ones (the model's integers end before u32's do).
ProbeScores ==
    {k * 500 : k \in 0..60}
    \cup {1, 99, 100, 101, 12499, 12501, 1000000, 20000000}

InitInterval ==
    /\ obstacles = <<>>
    /\ player = Player_new
    /\ is_running = TRUE
    /\ reset_countdown = None
    /\ fps_graph = FpsGraph_new
    /\ fps_update_time = None
    /\ last_spawned = None
    /\ spawn_interval = INITIAL_SPAWN_INTERVAL_MS
    /\ window_closed = FALSE
    /\ now = 0
    /\ pc = "input"
    /\ keyboard = {}
    /\ key_ticks = 0
    /\ probe \in [score : ProbeScores]
    /\ probe_out = None

ProbeObstacleSpawnInterval ==
    /\ probe_out' = Some([fn |-> "obstacle_spawn_interval",
                          spawntime |-> spawntime_ms(probe.score),
                          millis |-> obstacle_spawn_interval(probe.score)])
    /\ UNCHANGED <<game_vars, probe>>

NextInterval == ProbeObstacleSpawnInterval

SpecInterval == InitInterval /\ [][NextInterval]_vars

\* ------------------------------------------------- the two warning lines
\* The two calls draw_obstacles makes for a warning line of length `distance`:
\* at the obstacle's rixel (growing and static phase) and at opposite(rixel)
\* (receding phase), on the arguments of InitGeom.
ProbeWarningLines ==
    /\ probe_out' = Some([fn |-> "warning_lines",
                          side |-> rixel_to_direction(probe.rixel),
                          opposite_side |-> rixel_to_direction(opposite(probe.rixel)),
                          near |-> positioning_to_rectangle(probe.rixel, probe.distance,
                                        probe.distance, probe.width),
                          far |-> positioning_to_rectangle(opposite(probe.rixel),
                                        probe.distance, probe.distance, probe.width)])
    /\ UNCHANGED <<game_vars, probe>>

NextWarningLines == ProbeWarningLines

SpecWarningLines == InitGeom /\ [][NextWarningLines]_vars

\* ================================================================ claims
MovementKeys == {"H", "J", "K", "L", "Left", "Down", "Up", "Right"}

\* The player's solid rectangle overlaps the current rectangle of one of obs.
player_hits_some(p, obs) ==
    \E i \in 1..Len(obs) :
        rectangle(obs[i]).ok /\ overlaps_rectangle(p.rect, rectangle(obs[i]).rect)

\* C1: the reset countdown goes from None to Some only in the collision step,
\* and then the player's solid rectangle overlaps the current rectangle of an
\* obstacle; it goes from Some to None only in the reset step, when more than
\* its 2 seconds have elapsed, and that step empties the obstacles and puts
\* the initial player in place; a pending countdown is never replaced, and no
\* other step (input, telemetry, spawn, despawn, draw) changes the countdown.
C1_Step ==
    /\ (is_none(reset_countdown) /\ is_some(reset_countdown'))
        => /\ pc = "collide"
           /\ player_hits_some(player, obstacles')
           /\ unwrap(reset_countdown') = Countdown_new(2000, now)
    /\ (is_some(reset_countdown) /\ is_none(reset_countdown'))
        => /\ pc = "reset"
           /\ now - unwrap(reset_countdown).start > 2000
           /\ obstacles' = <<>>
           /\ player' = Player_new
    /\ (is_some(reset_countdown) /\ is_some(reset_countdown'))
        => reset_countdown' = reset_countdown
    /\ pc \notin {"collide", "reset"} => reset_countdown' = reset_countdown
C1_CountdownTransitions == [][C1_Step]_vars

\* C1 witness: the frame in which the reset step has just fired: the draw
\* pass sees no obstacle, no countdown and the initial player although
\* obstacles have been spawned.
C1_Witness ==
    /\ pc = "draw"
    /\ is_some(last_spawned)
    /\ obstacles = <<>>
    /\ is_none(reset_countdown)
    /\ player = Player_new

\* C2: while a reset countdown is pending the input step leaves the player's
\* rectangle where it is whatever keys are down, and the collision step
\* advances no lifetime and adds no score.
C2_Step ==
    /\ (pc = "input" /\ is_some(reset_countdown)) => player'.rect = player.rect
    /\ (pc = "collide" /\ is_some(reset_countdown))
        => /\ obstacles' = obstacles
           /\ player'.score = player.score
    /\ (pc \in {"input", "fps"} /\ is_some(reset_countdown))
        => reset_countdown' = reset_countdown
C2_FrozenWhilePending == [][C2_Step]_vars

\* C2 witness: the input step has just read a movement key with a countdown
\* pending and obstacles in the collection.
C2_Witness ==
    /\ pc = "fps"
    /\ is_some(reset_countdown)
    /\ keyboard \cap MovementKeys # {}
    /\ obstacles # <<>>

\* C3 as claimed: when the reset step fires, the obstacles are emptied, the
\* player is the initial player, the countdown is cleared, and last_spawned
\* and spawn_interval are what GameState::new sets (None, 4 s).
C3_Original_Step ==
    (pc = "reset" /\ reset_is_due(reset_countdown, now))
        => /\ obstacles' = <<>>
           /\ player' = Player_new
           /\ is_none(reset_countdown')
           /\ last_spawned' = None
           /\ spawn_interval' = INITIAL_SPAWN_INTERVAL_MS
C3_Original == [][C3_Original_Step]_vars

\* C3 amended: when the reset step fires, the obstacles are emptied, the
\* player is the initial player (position (0,0), size, score 0, color) and
\* the countdown is cleared; last_spawned and spawn_interval are left as the
\* last spawn set them, so last_spawned is not None as it is at startup.
C3_Amended_Step ==
    (pc = "reset" /\ reset_is_due(reset_countdown, now))
        => /\ obstacles' = <<>>
           /\ player' = Player_new
           /\ player'.rect.pos = [x |-> 0, y |-> 0]
           /\ player'.score = 0
           /\ is_none(reset_countdown')
           /\ last_spawned' = last_spawned
           /\ is_some(last_spawned')
           /\ spawn_interval' = spawn_interval
C3_ResetKeepsSpawnTiming == [][C3_Amended_Step]_vars

\* C3 witness: the reset step is about to fire on a player that has moved
\* or scored.
C3_Witness ==
    /\ pc = "reset"
    /\ reset_is_due(reset_countdown, now)
    /\ obstacles # <<>>
    /\ player # Player_new

\* C4: the steps of a frame run in the order input, telemetry, collision,
\* spawn, despawn, reset (then the draw pass).  So an obstacle spawned in a
\* frame still has its first lifetime at the end of the frame; an obstacle
\* that is at the despawn threshold after the collision step is gone, with
\* 100 added to the score for it, before the reset step of the same frame;
\* and a reset step that fires clears also what this frame's spawn added.
C4_Expired(obs) == {i \in 1..Len(obs) : ~despawn_keeps(obs[i])}
C4_Step ==
    /\ pc = "input" => pc' = "fps"
    /\ pc = "fps" => pc' = "collide"
    /\ pc = "collide" => pc' \in {"spawn", "crashed"}
    /\ pc = "spawn" => pc' = "despawn"
    /\ pc = "despawn" => pc' = "reset"
    /\ pc = "reset" => pc' = "draw"
    /\ pc = "draw" => pc' \in {"input", "crashed"}
    /\ (pc' \in {"despawn", "reset", "draw"} /\ last_spawned' = Some(now') /\ obstacles' # <<>>)
        => obstacles'[Len(obstacles')].lifetime = -OBSTACLE_PRE_SPAWN_WARN_TIME
    /\ pc = "despawn"
        => player'.score = player.score + 100 * Cardinality(C4_Expired(obstacles))
    /\ pc' \in {"reset", "draw", "input", "fps", "collide"} => C4_Expired(obstacles') = {}
    /\ (pc = "reset" /\ reset_is_due(reset_countdown, now)) => obstacles' = <<>>
C4_FixedStepOrder == [][C4_Step]_vars

\* C4 witness: the collision step has just brought an obstacle to the despawn
\* threshold, in a frame that follows a spawn.
C4_Witness ==
    /\ pc = "spawn"
    /\ C4_Expired(obstacles) # {}

\* C5: rixel_to_direction returns the out-of-bounds error for every rixel <= 0
\* and for every rixel >= 4L.
C5_OutOfBoundsRejected ==
    (/\ is_some(probe_out)
     /\ unwrap(probe_out).fn = "rixel_to_direction"
     /\ (probe.rixel <= 0 \/ probe.rixel >= L * 4))
        => unwrap(probe_out).dir = OutOfBounds

\* C6 as claimed: opposite(opposite(r)) = r for every r in [0, 4L), the
\* corners 0, L, 2L and 3L included.
C6_Original ==
    (/\ is_some(probe_out)
     /\ unwrap(probe_out).fn = "opposite_opposite"
     /\ probe.rixel >= 0 /\ probe.rixel < L * 4)
        => unwrap(probe_out).rixel = probe.rixel

\* C6 amended: opposite(opposite(r)) = r for every r in [0, 4L) that is not a
\* corner; at a corner r = kL, opposite(opposite(r)) is the corner two sides
\* on, (r + 2L) mod 4L.
C6_InvolutionOffCorners ==
    (/\ is_some(probe_out)
     /\ unwrap(probe_out).fn = "opposite_opposite"
     /\ probe.rixel >= 0 /\ probe.rixel < L * 4)
        => unwrap(probe_out).rixel =
                IF probe.rixel % L # 0 THEN probe.rixel
                ELSE (probe.rixel + L * 2) % (L * 4)

\* C6 witness: opposite has been applied twice to a rixel inside a side.
C6_Witness ==
    /\ is_some(probe_out)
    /\ unwrap(probe_out).fn = "opposite_opposite"
    /\ probe.rixel > L * 2 /\ probe.rixel < L * 3
    /\ unwrap(probe_out).rixel = probe.rixel

\* C7: for every rixel rixel_to_direction accepts and every distance, length
\* and width, the rectangle's leading edge is at `distance` from the side the
\* rixel is on (North: bottom edge at y = distance; East: left edge at
\* x = L - distance; South: top edge at y = L - distance; West: right edge at
\* x = distance), so on that side's perimeter edge at distance 0 and on the
\* opposite edge at distance L; its size is (width, length) on North and
\* South and (length, width) on East and West.
C7_LeadingEdge ==
    (/\ is_some(probe_out)
     /\ unwrap(probe_out).fn = "positioning_to_rectangle"
     /\ rixel_to_direction(probe.rixel) # OutOfBounds)
        => LET res == unwrap(probe_out).result
               dir == rixel_to_direction(probe.rixel)
               wl == [x |-> probe.width, y |-> probe.length]
               lw == [x |-> probe.length, y |-> probe.width]
           IN  /\ res.ok
               /\ dir = "North" =>
                    res.rect.pos.y + res.rect.size.y = probe.distance /\ res.rect.size = wl
               /\ dir = "East" =>
                    res.rect.pos.x = L - probe.distance /\ res.rect.size = lw
               /\ dir = "South" =>
                    res.rect.pos.y = L - probe.distance /\ res.rect.size = wl
               /\ dir = "West" =>
                    res.rect.pos.x + res.rect.size.x = probe.distance /\ res.rect.size = lw

\* C7 witness: a rectangle for a west-side rixel at distance L, its right
\* edge on the east edge of the field.
C7_Witness ==
    /\ is_some(probe_out)
    /\ unwrap(probe_out).fn = "positioning_to_rectangle"
    /\ rixel_to_direction(probe.rixel) = "West"
    /\ probe.distance = L
    /\ probe.length > 0
    /\ unwrap(probe_out).result.ok
    /\ unwrap(probe_out).result.rect.pos.x + unwrap(probe_out).result.rect.size.x = L

\* C8: with speed 3, length 300 and L 500 the visible length of an obstacle is
\* 0 for lifetime < 0 and for lifetime > total_lifetime, lifetime * speed while
\* that is below 300, 300 while 300 <= lifetime * speed <= 500, and
\* 300 - (lifetime * speed - 500) afterwards; from one tick's lifetime to the
\* next it changes by at most speed.
C8_Abs(n) == IF n < 0 THEN -n ELSE n
C8_ClosedForm(lifetime) ==
    IF lifetime < 0 \/ lifetime * 3 > 500 + 300 THEN 0
    ELSE IF lifetime * Px(3) < Px(300) THEN lifetime * Px(3)
    ELSE IF lifetime * Px(3) <= Px(500) THEN Px(300)
    ELSE Px(300) - (lifetime * Px(3) - Px(500))
C8_VisibleLength ==
    \A i \in 1..Len(obstacles) :
        LET ob == obstacles[i]
            next == [ob EXCEPT !.lifetime = @ + 1]
        IN  /\ ob.speed = Px(3) /\ ob.length = Px(300)
            /\ rectangle_length(ob) = C8_ClosedForm(ob.lifetime)
            /\ C8_Abs(rectangle_length(next) - rectangle_length(ob)) <= ob.speed

\* C8 witness: an obstacle on its last tick with a visible length, one tick
\* before total_lifetime is passed.
C8_Witness ==
    \E i \in 1..Len(obstacles) :
        /\ rectangle_length(obstacles[i]) > 0
        /\ rectangle_length([obstacles[i] EXCEPT !.lifetime = @ + 1]) = 0
        /\ obstacles[i].lifetime > 0

\* C9: for every obstacle of every reachable state, its rixel and
\* opposite(rixel) are accepted by rixel_to_direction, its body rectangle and
\* its warning rectangle are computed without the error, and neither the
\* update nor the draw pass has ended in the error or a panic.
C9_NoOutOfBounds ==
    /\ pc # "crashed"
    /\ \A i \in 1..Len(obstacles) :
        /\ rixel_to_direction(obstacles[i].rixel) # OutOfBounds
        /\ rixel_to_direction(opposite(obstacles[i].rixel)) # OutOfBounds
        /\ rectangle(obstacles[i]).ok
        /\ warning_rectangle(obstacles[i]).ok

\* C9 witness: the draw pass has drawn the receding warning line, the one at
\* opposite(rixel), of an obstacle spawned on the west side, the last side of
\* the perimeter, and the frame after it has begun.
C9_Witness ==
    /\ pc = "input"
    /\ \E i \in 1..Len(obstacles) :
        /\ obstacles[i].rixel > L * 3
        /\ obstacles[i].lifetime * obstacles[i].speed - total_lifetime_x_speed(obstacles[i])
                >= OBSTACLE_HIDE_DELAY * obstacles[i].speed

\* C10: in every state, after any keys, with or without the slow-motion
\* modifier and with or without a countdown pending, the player's position
\* satisfies 0 <= x <= L - size and 0 <= y <= L - size.
C10_PlayerInBounds ==
    /\ 0 <= player.rect.pos.x
    /\ player.rect.pos.x <= L - Px(50)
    /\ 0 <= player.rect.pos.y
    /\ player.rect.pos.y <= L - Px(50)

\* C10 witness: the player in the far corner, the input step having just
\* read a key that pushes against a wall there, with no countdown pending.
C10_Witness ==
    /\ pc = "fps"
    /\ is_none(reset_countdown)
    /\ keyboard \cap {"L", "Right", "J", "Down"} # {}
    /\ key_ticks > 0
    /\ player.rect.pos = [x |-> L - Px(50), y |-> L - Px(50)]

\* C11: the despawn step removes exactly the obstacles whose lifetime has
\* reached total_lifetime + L / warning_speed + hide_delay (lifetime * 3 >=
\* 800 + 60 + 60 with the shipped numbers), keeps the others in their order,
\* and adds exactly 100 to the score per obstacle removed; the reset step,
\* the only other step that takes obstacles away, adds nothing to the score
\* (it leaves it or sets it to 0), and no step but the despawn and the reset
\* shortens the collection.
C11_Reached(ob) ==
    ob.lifetime * ob.speed
        >= (L + ob.length) + (L \div Px(OBSTACLE_WARNING_MOVE_SPEED)) * ob.speed
           + OBSTACLE_HIDE_DELAY * ob.speed
C11_Below(ob) == ~C11_Reached(ob)
C11_Step ==
    /\ pc = "despawn"
        => /\ obstacles' = SelectSeq(obstacles, C11_Below)
           /\ player'.score = player.score
                + 100 * Cardinality({i \in 1..Len(obstacles) : C11_Reached(obstacles[i])})
           /\ \A i \in 1..Len(obstacles) :
                C11_Reached(obstacles[i]) <=> obstacles[i].lifetime >= 307
    /\ pc = "reset" => player'.score \in {player.score, 0}
    /\ pc \notin {"despawn", "reset"} => Len(obstacles') >= Len(obstacles)
C11_DespawnBonus == [][C11_Step]_vars

\* C11 witness: the despawn step has just removed the oldest obstacle and
\* kept a younger one; the score holds the bonus and no countdown is pending.
C11_Witness ==
    /\ pc = "reset"
    /\ is_none(reset_countdown)
    /\ player.score >= 100
    /\ Len(obstacles) = 1
    /\ obstacles[1].lifetime < 100
    /\ now \div FrameMs >= 307 + OBSTACLE_PRE_SPAWN_WARN_TIME

\* C12: recent_average_fps returns an average exactly when each of the 64
\* stored samples is normal (not zero, not infinite, not NaN, not subnormal).
\* After fewer than 64 logged samples it returns None; when the last 64
\* logged samples are all valid it returns their mean; once an invalid sample
\* is logged it returns None until 64 further samples have been logged, the
\* 64th overwriting it; the write index is the number of samples logged
\* modulo 64, so always in [0, 64).
C12_Logged == now \div FrameMs + (IF pc \in {"input", "fps"} THEN 0 ELSE 1)
C12_InvalidInWindow ==
    /\ probe.invalid_at # NoFrame
    /\ probe.invalid_at < C12_Logged
    /\ C12_Logged - (probe.invalid_at + 1) < 64
RECURSIVE C12_TraceSum(_, _)
C12_TraceSum(from, to) ==
    IF from > to THEN 0 ELSE current_fps(probe, from) + C12_TraceSum(from + 1, to)
C12_RollingAverage ==
    /\ fps_graph.i \in 0..63
    /\ fps_graph.i = C12_Logged % 64
    /\ is_some(recent_average_fps(fps_graph))
        <=> \A k \in 1..64 : fps_graph.history[k] \notin {0, F64_NAN, F64_INFINITY, F64_SUBNORMAL}
    /\ C12_Logged < 64 => is_none(recent_average_fps(fps_graph))
    /\ C12_InvalidInWindow => is_none(recent_average_fps(fps_graph))
    /\ (C12_Logged >= 64 /\ ~C12_InvalidInWindow)
        => recent_average_fps(fps_graph)
            = Some((C12_TraceSum(C12_Logged - 64, C12_Logged - 1) * 1000) \div 64)

\* C12 witness: the 64th sample after an invalid one has just been logged
\* over it, and the average is available again, the slower frame counted in.
C12_Witness ==
    /\ pc = "collide"
    /\ probe.invalid_at = 64
    /\ C12_Logged = 64 + 1 + 64
    /\ is_some(recent_average_fps(fps_graph))
    /\ unwrap(recent_average_fps(fps_graph)) < 60 * 1000

\* The obstacle with one tick added to its lifetime, as the collision loop
\* sees it, overlaps the player's solid rectangle / only the collector.
aged_hits_solid(p, ob) ==
    LET r == rectangle([ob EXCEPT !.lifetime = @ + 1])
    IN  r.ok /\ overlaps_rectangle(p.rect, r.rect)
aged_hits_collector_only(p, ob) ==
    LET r == rectangle([ob EXCEPT !.lifetime = @ + 1])
    IN  /\ r.ok
        /\ ~overlaps_rectangle(p.rect, r.rect)
        /\ overlaps_rectangle(collector_rectangle(p), r.rect)

\* C13: a collision step that starts with no countdown pending adds exactly 1
\* to the lifetime of every obstacle and changes nothing else of it, also of
\* the obstacles that come after one that starts the countdown in this step;
\* and every obstacle after the first one that starts the countdown is still
\* tested for the collector: the score grows by at least the number of such
\* later obstacles that overlap the collector and not the solid body.
C13_FirstHit(p, obs) ==
    CHOOSE i \in 1..Len(obs) :
        /\ aged_hits_solid(p, obs[i])
        /\ \A j \in 1..(i - 1) : ~aged_hits_solid(p, obs[j])
C13_Step ==
    (pc = "collide" /\ is_none(reset_countdown) /\ pc' # "crashed")
        => /\ Len(obstacles') = Len(obstacles)
           /\ \A i \in 1..Len(obstacles) :
                obstacles'[i] = [obstacles[i] EXCEPT !.lifetime = @ + 1]
           /\ (\E i \in 1..Len(obstacles) : aged_hits_solid(player, obstacles[i]))
                => /\ reset_countdown' = Some(Countdown_new(2000, now))
                   /\ player'.score >= player.score
                        + Cardinality({j \in (C13_FirstHit(player, obstacles) + 1)..Len(obstacles) :
                                            aged_hits_collector_only(player, obstacles[j])})
C13_LaterObstaclesProcessed == [][C13_Step]_vars

\* C13 witness: the collision step has just started the countdown on an
\* obstacle, and an obstacle after it in the collection overlaps the
\* collector and not the solid body (and has added to the score).
C13_Witness ==
    /\ pc = "spawn"
    /\ reset_countdown = Some(Countdown_new(2000, now))
    /\ player.score > 0
    /\ \E i, j \in 1..Len(obstacles) :
        /\ i < j
        /\ overlaps_rectangle(player.rect, rectangle(obstacles[i]).rect)
        /\ ~overlaps_rectangle(player.rect, rectangle(obstacles[j]).rect)
        /\ overlaps_rectangle(collector_rectangle(player), rectangle(obstacles[j]).rect)

\* C14: a pending countdown is never restarted or replaced in a later tick
\* (it stays the same countdown until it is cleared); it is cleared only by
\* the reset step, which clears it exactly in the first tick in which it sees
\* more than 2 seconds elapsed; and if the host keeps running frames (the
\* run has frames left beyond the 2 seconds), a countdown that has started is
\* eventually cleared.
C14_Step ==
    /\ (is_some(reset_countdown) /\ pc # "reset") => reset_countdown' = reset_countdown
    /\ (is_some(reset_countdown) /\ pc = "reset")
        => reset_countdown' =
                IF now - unwrap(reset_countdown).start > 2000 THEN None ELSE reset_countdown
C14_FramesLeft ==
    /\ is_some(reset_countdown)
    /\ unwrap(reset_countdown).start + 2000 + FrameMs < MaxFrames * FrameMs
C14_ResetEventuallyFires ==
    /\ [][C14_Step]_vars
    /\ C14_FramesLeft ~> is_none(reset_countdown)

\* C14 witness: the reset step is about to clear a countdown that it has left
\* pending in the frame before (2 seconds had not yet elapsed then).
C14_Witness ==
    /\ pc = "reset"
    /\ is_some(reset_countdown)
    /\ now - unwrap(reset_countdown).start > 2000
    /\ now - FrameMs - unwrap(reset_countdown).start <= 2000
    /\ now - FrameMs - unwrap(reset_countdown).start > 0

\* C15: in a collision step that starts with no countdown pending, each
\* obstacle is tested with its lifetime already advanced by this tick, first
\* against the player's solid rectangle and only if that misses against the
\* collector: the countdown is started exactly if some obstacle overlaps the
\* solid rectangle, and the score grows by exactly the number of obstacles
\* that overlap the collector and not the solid rectangle, 1 for each, in
\* every tick in which they do so; the step does not move the player.
C15_Step ==
    (pc = "collide" /\ is_none(reset_countdown) /\ pc' # "crashed")
        => /\ player'.score = player.score
                + Cardinality({i \in 1..Len(obstacles) :
                                    aged_hits_collector_only(player, obstacles[i])})
           /\ is_some(reset_countdown')
                <=> \E i \in 1..Len(obstacles) : aged_hits_solid(player, obstacles[i])
           /\ player'.rect = player.rect
           /\ \A i \in 1..Len(obstacles) :
                ~(aged_hits_solid(player, obstacles[i])
                    /\ aged_hits_collector_only(player, obstacles[i]))
C15_ExclusiveTests == [][C15_Step]_vars

\* C15 witness: after a collision step with no countdown, two obstacles
\* overlap the collector and not the solid rectangle, one of them with a
\* visible length that overlapped in the same way a tick earlier.
C15_Witness ==
    /\ pc = "spawn"
    /\ is_none(reset_countdown)
    /\ player.score >= 4
    /\ Len(obstacles) = 2
    /\ \A i \in 1..2 :
        /\ ~overlaps_rectangle(player.rect, rectangle(obstacles[i]).rect)
        /\ overlaps_rectangle(collector_rectangle(player), rectangle(obstacles[i]).rect)
    /\ obstacles[1].lifetime >= 2
    /\ aged_hits_collector_only(player, [obstacles[1] EXCEPT !.lifetime = @ - 2])

\* C16: the spawn step appends exactly one obstacle (leaving the others as
\* they are) when no obstacle has ever been spawned or more time than
\* spawn_interval has passed since last_spawned, and then sets last_spawned to
\* now and spawn_interval to obstacle_spawn_interval of the score at that
\* moment (4.8 s up to score 100); otherwise it changes nothing.  It does not
\* look at the reset countdown; the first tick always spawns; no other step
\* adds an obstacle or writes last_spawned or spawn_interval.
C16_Due == is_none(last_spawned) \/ now - unwrap(last_spawned) > spawn_interval
C16_Step ==
    /\ (pc = "spawn" /\ C16_Due)
        => /\ Len(obstacles') = Len(obstacles) + 1
           /\ SubSeq(obstacles', 1, Len(obstacles)) = obstacles
           /\ obstacles'[Len(obstacles')].lifetime = -40
           /\ last_spawned' = Some(now)
           /\ spawn_interval' = obstacle_spawn_interval(player.score)
           /\ player.score <= 100 => spawn_interval' = 4800
    /\ (pc = "spawn" /\ ~C16_Due)
        => /\ obstacles' = obstacles
           /\ last_spawned' = last_spawned
           /\ spawn_interval' = spawn_interval
    /\ (pc = "spawn" /\ now = 0) => Len(obstacles') = 1
    /\ pc # "spawn"
        => /\ Len(obstacles') <= Len(obstacles)
           /\ last_spawned' = last_spawned
           /\ spawn_interval' = spawn_interval
C16_SpawnSchedule == [][C16_Step]_vars

\* C16 witness: the spawn step has just added an obstacle, in a tick after
\* the first, while a reset countdown is pending.
C16_Witness ==
    /\ pc = "despawn"
    /\ is_some(reset_countdown)
    /\ now > 0
    /\ last_spawned = Some(now)
    /\ Len(obstacles) >= 2
    /\ obstacles[Len(obstacles)].lifetime = -40

\* C17: for every score, the millisecond value
\* (6 / (max(100, score) / 100)^(1/3) - 1.2) * 1000 that obstacle_spawn_interval
\* computes is not negative before it is cast to u64.
C17_NeverNegative ==
    (is_some(probe_out) /\ unwrap(probe_out).fn = "obstacle_spawn_interval")
        => unwrap(probe_out).spawntime >= 0

\* C18: is_running starts true; it changes only in the input step of a tick
\* that reads the quit key down, to false, with or without a countdown
\* pending, and every such step clears it; it is never set back to true.  The
\* window is asked to close only at the start of an update tick (the model's
\* input step), exactly when is_running is false at that moment: not in the
\* tick that reads the quit key, and in every tick after it.
C18_Step ==
    /\ is_running' # is_running
        => /\ pc = "input"
           /\ "Escape" \in keyboard'
           /\ is_running
           /\ ~is_running'
    /\ (pc = "input" /\ "Escape" \in keyboard') => ~is_running'
    /\ ~is_running => ~is_running'
    /\ (pc = "input" /\ ~is_running) => window_closed'
    /\ (pc = "input" /\ is_running) => window_closed' = window_closed
    /\ pc # "input" => window_closed' = window_closed
    /\ window_closed => ~is_running
C18_RunningFlag ==
    /\ (is_running = TRUE /\ window_closed = FALSE)
    /\ [][C18_Step]_vars

\* C18 witness: the input step has just read the quit key with a countdown
\* pending: the flag is cleared, and the window has not yet been asked to
\* close.
C18_Witness ==
    /\ pc = "fps"
    /\ keyboard = {"Escape"}
    /\ is_some(reset_countdown)
    /\ ~is_running
    /\ ~window_closed

\* C19: from the end of an update tick to the next collision step (so
\* whenever the draw pass runs) every obstacle has a whole lifetime with
\* -40 <= lifetime and lifetime < total_lifetime + L / warning_speed +
\* hide_delay (lifetime * 3 < 920, so lifetime <= 306), and the distance of
\* its warning line, which is the line's length, lies in [0, L] in each of its
\* three phases.
C19_WarningDistance(ob) ==
    LET r == warning_rectangle(ob).rect
    IN  IF r.size.x = Px(OBSTACLE_WARNING_WIDTH) THEN r.size.y ELSE r.size.x
C19_LifetimeRange ==
    pc \in {"draw", "input", "fps"}
        => \A i \in 1..Len(obstacles) :
            /\ obstacles[i].lifetime \in Int
            /\ -40 <= obstacles[i].lifetime
            /\ obstacles[i].lifetime * 3 < 800 + 60 + 60
            /\ obstacles[i].lifetime <= 306
            /\ warning_rectangle(obstacles[i]).ok
            /\ 0 <= C19_WarningDistance(obstacles[i])
            /\ C19_WarningDistance(obstacles[i]) <= L

\* C19 witness: the draw pass runs with an obstacle on the last lifetime it
\* can have there, its warning line in the receding phase and almost gone.
C19_Witness ==
    /\ pc = "draw"
    /\ \E i \in 1..Len(obstacles) :
        /\ obstacles[i].lifetime = 306
        /\ C19_WarningDistance(obstacles[i]) > 0
        /\ C19_WarningDistance(obstacles[i]) < Px(25)

\* C20: in a tick that begins with a countdown pending (one started in an
\* earlier tick), no step before the reset step changes the score, and the
\* reset step leaves it unless it fires, which sets it to 0 and empties the
\* collection; the despawn step removes nothing, no obstacle being at or past
\* the despawn threshold; until the reset fires the collection only grows, at
\* its end, and the obstacles in it stay as they are.
C20_PendingFromEarlier ==
    is_some(reset_countdown) /\ unwrap(reset_countdown).start < now
C20_Step ==
    (C20_PendingFromEarlier /\ pc \in {"input", "fps", "collide", "spawn", "despawn", "reset"})
        => /\ pc # "reset"
                => /\ player'.score = player.score
                   /\ Len(obstacles') >= Len(obstacles)
                   /\ SubSeq(obstacles', 1, Len(obstacles)) = obstacles
           /\ pc = "despawn" => obstacles' = obstacles
           /\ pc = "reset"
                => IF now - unwrap(reset_countdown).start > 2000
                   THEN player'.score = 0 /\ obstacles' = <<>> /\ is_none(reset_countdown')
                   ELSE player'.score = player.score /\ obstacles' = obstacles
           /\ \A i \in 1..Len(obstacles) : obstacles[i].lifetime * 3 < 800 + 60 + 60
C20_FrozenScoreWhilePending == [][C20_Step]_vars

\* C20 witness: a tick that began with a countdown pending and a score
\* above 0 has spawned an obstacle and passed its despawn step; the reset
\* step is not yet due.
C20_Witness ==
    /\ pc = "reset"
    /\ C20_PendingFromEarlier
    /\ now - unwrap(reset_countdown).start <= 2000
    /\ last_spawned = Some(now)
    /\ Len(obstacles) >= 2
    /\ player.score > 0

\* C21: for every rixel r in (0, 4L) that is not a corner, opposite(r) is on
\* the side facing r's side (North <-> South, East <-> West), and the
\* rectangles positioning_to_rectangle gives for (r, d, d, w) and for
\* (opposite(r), d, d, w) have the same position across the direction of
\* travel (the same x on North and South, the same y on East and West) and
\* the same size; at d = L the two rectangles are equal.
C21_Facing(side) ==
    CASE side = "North" -> "South"
      [] side = "South" -> "North"
      [] side = "East" -> "West"
      [] side = "West" -> "East"
C21_FacingLines ==
    (/\ is_some(probe_out)
     /\ unwrap(probe_out).fn = "warning_lines"
     /\ probe.rixel > 0 /\ probe.rixel < L * 4
     /\ probe.rixel % L # 0)
        => LET out == unwrap(probe_out)
           IN  /\ out.near.ok /\ out.far.ok
               /\ out.opposite_side = C21_Facing(out.side)
               /\ out.near.rect.size = out.far.rect.size
               /\ out.side \in {"North", "South"}
                    => out.near.rect.pos.x = out.far.rect.pos.x
               /\ out.side \in {"East", "West"}
                    => out.near.rect.pos.y = out.far.rect.pos.y
               /\ probe.distance = L => out.near.rect = out.far.rect

\* C21 witness: the two lines of a south-side rixel at distance L, on the
\* same rectangle, the far one on the north side.
C21_Witness ==
    /\ is_some(probe_out)
    /\ unwrap(probe_out).fn = "warning_lines"
    /\ probe.rixel > L * 2 /\ probe.rixel < L * 3
    /\ probe.distance = L
    /\ unwrap(probe_out).opposite_side = "North"
    /\ unwrap(probe_out).near.rect = unwrap(probe_out).far.rect
    /\ unwrap(probe_out).near.rect.size.y = L

\* C22: an obstacle whose visible length is 0 because its lifetime is below 0
\* or above total_lifetime has no effect in play: its rectangle overlaps
\* neither the player's solid rectangle nor the collector rectangle, wherever
\* the player stands.
C22_Invisible(ob) ==
    ob.lifetime < 0 \/ ob.lifetime * ob.speed > L + ob.length
C22_ZeroLengthInert ==
    \A i \in 1..Len(obstacles) :
        (C22_Invisible(obstacles[i]) /\ rectangle(obstacles[i]).ok)
            => /\ rectangle_length(obstacles[i]) = 0
               /\ ~overlaps_rectangle(player.rect, rectangle(obstacles[i]).rect)
               /\ ~overlaps_rectangle(collector_rectangle(player),
                                      rectangle(obstacles[i]).rect)

====
